---- MODULE Spec2Model ----
(***************************************************************************)
(* Model of the reaction sub-client of stream-js (src/src/reaction.ts).    *)
(*                                                                         *)
(* StreamReaction owns a transport (client) and a token.  Each public      *)
(* operation builds one request and hands it to the transport; the promise *)
(* the transport returns is returned to the caller unchanged.  The model   *)
(* follows one caller that awaits each operation before starting the next. *)
(*                                                                         *)
(* JavaScript values are modelled as follows.                              *)
(*   - an optional argument is a sequence: <<>> is undefined, <<v>> is v;  *)
(*   - an object with optional keys (conditions, qs, a request body) is a  *)
(*     function whose DOMAIN is the set of keys that are present;          *)
(*   - a value of a union type (string | {id}, string | StreamFeed) is a   *)
(*     record tagged with the alternative it is.                           *)
(***************************************************************************)
EXTENDS Integers, Sequences, FiniteSets, TLC

VARIABLES
    token,      \* this.token, set by the constructor
    pc,         \* "idle": no operation running; "waiting": a request is in flight;
                \* "done": the operation has thrown or its promise has settled
    op,         \* the operation being run and its arguments
    sent,       \* the transport calls issued by the running operation, in order
    result,     \* what the caller gets: thrown error or settled promise
    store,      \* remote service: ids of the reactions that exist
    deletedIds  \* history: ids whose delete succeeded, with no successful create since

vars == <<token, pc, op, sent, result, store, deletedIds>>

-----------------------------------------------------------------------------
(* Bounds and input domains *)

MaxTargetFeeds == 2
MaxLimit == 2

Tokens == {"jwt-a", "jwt-b"}
Kinds == {"like", "comment"}
ActivityIds == {"act1", "act2"}
ReactionIds == {"r1", "r2"}
UserIds == {"alice"}

None == <<>>
Some(v) == <<v>>
Opt(S) == {None} \cup {Some(v) : v \in S}

\* string | { id: string }
RawId(s) == [t |-> "string", v |-> s]
Reference(s) == [t |-> "object", id |-> s]
\* string | StreamFeed
FeedHandle(s) == [t |-> "feed", id |-> s]

TargetFeedElems == {RawId("timeline:bob"), FeedHandle("user:carl"), FeedHandle("timeline:bob")}
TargetFeedLists == UNION {[1..n -> TargetFeedElems] : n \in 0..MaxTargetFeeds}

DataValues == {[text |-> "hi"]}
ExtraDataValues == {<<>>, [note |-> "x"]}   \* <<>> is the empty object {}

-----------------------------------------------------------------------------
(* JavaScript helpers *)

\* an object with key k when the optional value is present, {} otherwise
Fld(k, o) == IF o = None THEN <<>> ELSE k :> o[1]

\* truthiness of conditions[k] for a string-valued key: undefined and "" are falsy
TruthyStr(c, k) == k \in DOMAIN c /\ c[k] # ""

\* truthiness of conditions[k] for a number-valued key: undefined and 0 are falsy
TruthyNum(c, k) == k \in DOMAIN c /\ c[k] # 0

RECURSIVE join(_, _)
join(parts, sep) ==
    IF Len(parts) = 0 THEN ""
    ELSE IF Len(parts) = 1 THEN parts[1]
    ELSE parts[1] \o sep \o join(Tail(parts), sep)

-----------------------------------------------------------------------------
(* StreamReaction helpers *)

buildURL(args) == join(<<"reaction">> \o args, "/") \o "/"

RECURSIVE dropFeeds(_)
dropFeeds(targetFeeds) ==
    IF targetFeeds = <<>> THEN <<>>
    ELSE IF Head(targetFeeds).t = "string"
         THEN <<Head(targetFeeds).v>> \o dropFeeds(Tail(targetFeeds))
         ELSE dropFeeds(Tail(targetFeeds))

\* faulty variant: only the plain strings are kept, the feed handles are dropped
_convertTargetFeedsStringsOnly(targetFeeds) == dropFeeds(targetFeeds)

convertElem(elem) == IF elem.t = "string" THEN elem.v ELSE elem.id

\* the parameter default (targetFeeds = []) is applied by the callers below
_convertTargetFeeds(targetFeeds) == [i \in 1..Len(targetFeeds) |-> convertElem(targetFeeds[i])]

\* a destructured option with the default []
DefaultEmpty(o) == IF o = None THEN <<>> ELSE o[1]

\* faulty variant: the object is used as it is, and becomes a string in the request
extractIdNoDeref(x) == IF x.t = "object" THEN "[object Object]" ELSE x.v

\* activity instanceof Object ? activity.id : activity
extractId(x) == IF x.t = "object" THEN x.id ELSE x.v

\* data || {}
dataOrEmpty(d) == IF d = None THEN <<>> ELSE d[1]

NoOp == [name |-> "none"]
NoResult == [state |-> "none"]

Init ==
    /\ token \in Tokens
    /\ pc = "idle"
    /\ op = NoOp
    /\ sent = <<>>
    /\ result = NoResult
    /\ store = {}
    /\ deletedIds = {}

-----------------------------------------------------------------------------
(* The transport call of an operation: client.post / get / put / delete *)

Request(method, url, body, qs) ==
    [method |-> method, url |-> url, body |-> body, qs |-> qs, signature |-> token]

\* the operation hands one request to the transport and returns its promise
Call(o, req) ==
    /\ pc = "idle"
    /\ op' = o
    /\ sent' = Append(sent, req)
    /\ pc' = "waiting"
    /\ UNCHANGED <<token, result, store, deletedIds>>

\* the operation throws before reaching the transport
Throw(o, err) ==
    /\ pc = "idle"
    /\ op' = o
    /\ result' = [state |-> "thrown", error |-> err]
    /\ pc' = "done"
    /\ UNCHANGED <<token, sent, store, deletedIds>>

\* faulty variant: an empty object is treated as not supplied
extraDataFieldNonEmpty(targetFeedsExtraData) ==
    IF targetFeedsExtraData = Some(<<>>) THEN <<>>
    ELSE Fld("target_feeds_extra_data", targetFeedsExtraData)

\* body.target_feeds_extra_data is assigned only if (targetFeedsExtraData != null)
extraDataField(targetFeedsExtraData) == Fld("target_feeds_extra_data", targetFeedsExtraData)

-----------------------------------------------------------------------------
(* add *)

addBody(kind, activity, data, options) ==
    [ id |-> options.id,
      activity_id |-> extractId(activity),
      kind |-> kind,
      data |-> dataOrEmpty(data),
      target_feeds |-> _convertTargetFeeds(DefaultEmpty(options.targetFeeds)),
      user_id |-> options.userId ]
    @@ extraDataField(options.targetFeedsExtraData)

add(kind, activity, data, options) ==
    Call([name |-> "add", kind |-> kind, activity |-> activity, data |-> data, options |-> options],
         Request("POST", buildURL(<<>>), Some(addBody(kind, activity, data, options)), None))

(* addChild *)

\* faulty variant: the body copied from add keeps activity_id beside parent
addChildBodyBothRefs(kind, reaction, data, options) ==
    [ activity_id |-> extractId(reaction),
      parent |-> extractId(reaction),
      kind |-> kind,
      data |-> dataOrEmpty(data),
      target_feeds |-> _convertTargetFeeds(DefaultEmpty(options.targetFeeds)),
      user_id |-> options.userId ]
    @@ extraDataField(options.targetFeedsExtraData)

addChildBody(kind, reaction, data, options) ==
    [ parent |-> extractId(reaction),
      kind |-> kind,
      data |-> dataOrEmpty(data),
      target_feeds |-> _convertTargetFeeds(DefaultEmpty(options.targetFeeds)),
      user_id |-> options.userId ]
    @@ extraDataField(options.targetFeedsExtraData)

addChild(kind, reaction, data, options) ==
    Call([name |-> "addChild", kind |-> kind, reaction |-> reaction, data |-> data, options |-> options],
         Request("POST", buildURL(<<>>), Some(addChildBody(kind, reaction, data, options)), None))

(* get *)

get(id) ==
    Call([name |-> "get", id |-> id],
         Request("GET", buildURL(<<id>>), None, None))

-----------------------------------------------------------------------------
(* filter *)

LookupFields == {"user_id", "activity_id", "reaction_id"}

\* faulty variant: only user_id is taken out of the rest
restOfOnlyUserId(conditions) == [k \in (DOMAIN conditions) \ {"user_id"} |-> conditions[k]]

\* const { user_id, activity_id, reaction_id, ...qs } = conditions
restOf(conditions) == [k \in (DOMAIN conditions) \ LookupFields |-> conditions[k]]

\* if (!qs.limit) qs.limit = 10
DefaultLimit == 10
\* faulty variant: the default overwrites whatever the caller gave
withDefaultLimitAlways(qs) == ("limit" :> DefaultLimit) @@ qs

withDefaultLimit(qs) == IF TruthyNum(qs, "limit") THEN qs ELSE ("limit" :> DefaultLimit) @@ qs

\* (userId ? 1 : 0) + (activityId ? 1 : 0) + (reactionId ? 1 : 0)
axisCount(conditions) ==
    (IF TruthyStr(conditions, "user_id") THEN 1 ELSE 0)
    + (IF TruthyStr(conditions, "activity_id") THEN 1 ELSE 0)
    + (IF TruthyStr(conditions, "reaction_id") THEN 1 ELSE 0)

\* faulty variant: only the absence of every axis is rejected
filterValidAtLeastOne(conditions) == axisCount(conditions) >= 1

\* the throw is skipped when the sum is 1
filterValid(conditions) == axisCount(conditions) = 1

\* (userId && 'user_id') || (activityId && 'activity_id') || (reactionId && 'reaction_id')
lookupType(conditions) ==
    IF TruthyStr(conditions, "user_id") THEN "user_id"
    ELSE IF TruthyStr(conditions, "activity_id") THEN "activity_id"
    ELSE "reaction_id"

\* userId || activityId || reactionId
lookupValue(conditions) ==
    IF TruthyStr(conditions, "user_id") THEN conditions["user_id"]
    ELSE IF TruthyStr(conditions, "activity_id") THEN conditions["activity_id"]
    ELSE conditions["reaction_id"]

\* faulty variant: the kind segment is never appended
filterURLNoKind(conditions) == buildURL(<<lookupType(conditions), lookupValue(conditions)>>)

\* conditions.kind ? buildURL(lookupType, value, conditions.kind) : buildURL(lookupType, value)
filterURL(conditions) ==
    IF TruthyStr(conditions, "kind")
    THEN buildURL(<<lookupType(conditions), lookupValue(conditions), conditions["kind"]>>)
    ELSE buildURL(<<lookupType(conditions), lookupValue(conditions)>>)

SiteError == "Must provide exactly one value for one of these params: user_id, activity_id, reaction_id"

\* faulty variant: the request is handed to the transport before the conditions are validated
filterSendsFirst(conditions) ==
    LET o == [name |-> "filter", conditions |-> conditions]
        qs == withDefaultLimit(restOf(conditions))
        url == IF filterValid(conditions) THEN filterURL(conditions)
               ELSE "reaction/undefined/undefined/"
    IN  /\ pc = "idle"
        /\ op' = o
        /\ sent' = Append(sent, Request("GET", url, None, Some(qs)))
        /\ IF filterValid(conditions)
           THEN pc' = "waiting" /\ UNCHANGED result
           ELSE pc' = "done" /\ result' = [state |-> "thrown", error |-> SiteError]
        /\ UNCHANGED <<token, store, deletedIds>>

filter(conditions) ==
    LET o == [name |-> "filter", conditions |-> conditions]
        qs == withDefaultLimit(restOf(conditions))
    IN  IF ~filterValid(conditions)
        THEN Throw(o, SiteError)
        ELSE Call(o, Request("GET", filterURL(conditions), None, Some(qs)))

-----------------------------------------------------------------------------
(* update *)

\* faulty variant: target_feeds is left out when the caller gave no targetFeeds
updateBodyOptionalFeeds(data, options) ==
    [ data |-> data ]
    @@ (IF options.targetFeeds = None THEN <<>>
        ELSE "target_feeds" :> _convertTargetFeeds(options.targetFeeds[1]))
    @@ extraDataField(options.targetFeedsExtraData)

updateBody(data, options) ==
    [ data |-> data,
      target_feeds |-> _convertTargetFeeds(DefaultEmpty(options.targetFeeds)) ]
    @@ extraDataField(options.targetFeedsExtraData)

update(id, data, options) ==
    Call([name |-> "update", id |-> id, data |-> data, options |-> options],
         Request("PUT", buildURL(<<id>>), Some(updateBody(data, options)), None))

(* delete *)

delete(id) ==
    Call([name |-> "delete", id |-> id],
         Request("DELETE", buildURL(<<id>>), None, None))

-----------------------------------------------------------------------------
(* The transport and the remote service *)

Resolved(status, id) == [state |-> "resolved", status |-> status, id |-> id]
Rejected(status) == [state |-> "rejected", status |-> status]

\* what the service answers to a request, and the reactions that exist afterwards
serverOutcomes(req) ==
    IF req.method = "POST" /\ req.url = buildURL(<<>>) THEN
        LET body == req.body[1] IN
        IF "id" \in DOMAIN body /\ body["id"] # None
        THEN IF body["id"][1] \in store
             THEN {[response |-> Rejected(409), store |-> store]}
             ELSE {[response |-> Resolved(201, body["id"]), store |-> store \cup {body["id"][1]}]}
        ELSE {[response |-> Resolved(201, Some(nid)), store |-> store \cup {nid}] :
                 nid \in ReactionIds \ store}
    ELSE IF \E id \in ReactionIds : req.url = buildURL(<<id>>) THEN
        LET id == CHOOSE i \in ReactionIds : req.url = buildURL(<<i>>) IN
        IF id \notin store THEN {[response |-> Rejected(404), store |-> store]}
        ELSE IF req.method = "DELETE"
             THEN {[response |-> Resolved(200, None), store |-> store \ {id}]}
             ELSE {[response |-> Resolved(200, Some(id)), store |-> store]}
    ELSE IF req.method = "GET"
        THEN {[response |-> Resolved(200, None), store |-> store]}
        ELSE {[response |-> Rejected(404), store |-> store]}

\* faulty variant: a rejection is caught and turned into an empty success
settleSwallow(outcome) ==
    IF outcome.state = "rejected" THEN Resolved(200, None) ELSE outcome

\* every operation returns the transport's promise itself: the caller's promise
\* settles as the transport's does
settle(outcome) == outcome

TransportRespond ==
    /\ pc = "waiting"
    /\ \E out \in serverOutcomes(sent[Len(sent)]) :
        /\ result' = settle(out.response)
        /\ store' = out.store
        /\ deletedIds' = (deletedIds \cup (store \ out.store)) \ (out.store \ store)
    /\ pc' = "done"
    /\ UNCHANGED <<token, op, sent>>

\* the request never reaches the service
TransportFail ==
    /\ pc = "waiting"
    /\ result' = settle(Rejected(0))
    /\ pc' = "done"
    /\ UNCHANGED <<token, op, sent, store, deletedIds>>

\* the caller has its result and is ready for the next operation
Return ==
    /\ pc = "done"
    /\ pc' = "idle"
    /\ op' = NoOp
    /\ sent' = <<>>
    /\ result' = NoResult
    /\ UNCHANGED <<token, store, deletedIds>>

-----------------------------------------------------------------------------
(* The caller's inputs *)

Activities == {RawId(a) : a \in ActivityIds} \cup {Reference(a) : a \in ActivityIds}
Reactions == {RawId(r) : r \in ReactionIds} \cup {Reference(r) : r \in ReactionIds}

AddOptions ==
    [ id : Opt(ReactionIds), targetFeeds : Opt(TargetFeedLists),
      userId : Opt(UserIds), targetFeedsExtraData : Opt(ExtraDataValues) ]

AddChildOptions ==
    [ targetFeeds : Opt(TargetFeedLists),
      userId : Opt(UserIds), targetFeedsExtraData : Opt(ExtraDataValues) ]

UpdateOptions ==
    [ targetFeeds : Opt(TargetFeedLists), targetFeedsExtraData : Opt(ExtraDataValues) ]

Cursors == {"id_lt", "id_lte", "id_gt", "id_gte"}

Conditions ==
    { Fld("user_id", u) @@ Fld("activity_id", a) @@ Fld("reaction_id", r) @@ Fld("kind", k)
      @@ Fld("limit", l) @@ c @@ Fld("with_activity_data", w) :
        u \in Opt({"", "alice"}), a \in Opt({"", "act1"}), r \in Opt({"", "r1"}),
        k \in Opt({"", "like"}), l \in Opt(0..MaxLimit),
        c \in {<<>>} \cup {x :> "r2" : x \in Cursors}, w \in Opt({TRUE}) }

\* the caller starts an operation only when the previous one has returned
CallAdd ==
    pc = "idle" /\ \E kind \in Kinds, activity \in Activities, data \in Opt(DataValues),
                      options \in AddOptions :
                         add(kind, activity, data, options)

CallAddChild ==
    pc = "idle" /\ \E kind \in Kinds, reaction \in Reactions, data \in Opt(DataValues),
                      options \in AddChildOptions :
                         addChild(kind, reaction, data, options)

CallGet == pc = "idle" /\ \E id \in ReactionIds : get(id)

CallFilter == pc = "idle" /\ \E conditions \in Conditions : filter(conditions)

CallUpdate ==
    pc = "idle" /\ \E id \in ReactionIds, data \in DataValues, options \in UpdateOptions :
                         update(id, data, options)

CallDelete == pc = "idle" /\ \E id \in ReactionIds : delete(id)

Next ==
    \/ CallAdd
    \/ CallAddChild
    \/ CallGet
    \/ CallFilter
    \/ CallUpdate
    \/ CallDelete
    \/ TransportRespond
    \/ TransportFail
    \/ Return

Spec == Init /\ [][Next]_vars

-----------------------------------------------------------------------------
(* Claims about filter *)

FilterCalled == op.name = "filter" /\ pc # "idle"
FilterSent == FilterCalled /\ Len(sent) >= 1
FilterThrew == result = [state |-> "thrown", error |-> SiteError] /\ sent = <<>>
FilterIssuedGet == Len(sent) = 1 /\ sent[1].method = "GET" /\ result.state # "thrown"

\* the lookup-axis keys the caller put in conditions
AxesSet(c) == LookupFields \cap DOMAIN c
\* those of them that hold a non-empty string
AxesNonEmpty(c) == {k \in AxesSet(c) : c[k] # ""}

\* C1 as stated: filter throws the validation error without a transport call when
\* zero or more than one of user_id, activity_id, reaction_id is present in
\* conditions, and issues the GET when exactly one is present.
C1_AsStated ==
    FilterCalled =>
        IF Cardinality(AxesSet(op.conditions)) = 1 THEN FilterIssuedGet ELSE FilterThrew

\* C1 amended: filter throws the validation error without a transport call when zero
\* or more than one of user_id, activity_id, reaction_id holds a non-empty string,
\* and issues the GET when exactly one does; an axis set to "" counts as not set.
C1_FilterValidation ==
    FilterCalled =>
        IF Cardinality(AxesNonEmpty(op.conditions)) = 1 THEN FilterIssuedGet ELSE FilterThrew

C1_Witness ==
    /\ FilterCalled
    /\ Cardinality(AxesNonEmpty(op.conditions)) = 2
    /\ FilterThrew

\* C2 as stated: the outgoing limit is 10 when conditions has no limit and is the
\* caller's limit whenever conditions has one.
C2_AsStated ==
    FilterSent =>
        sent[1].qs[1]["limit"] =
            IF "limit" \in DOMAIN op.conditions THEN op.conditions["limit"] ELSE 10

\* C2 amended: the outgoing limit is 10 when conditions has no limit or a limit of 0,
\* and is the caller's limit whenever that limit is not 0.
C2_LimitDefault ==
    FilterSent =>
        /\ "limit" \in DOMAIN sent[1].qs[1]
        /\ sent[1].qs[1]["limit"] =
              IF "limit" \in DOMAIN op.conditions /\ op.conditions["limit"] # 0
              THEN op.conditions["limit"] ELSE 10

C2_Witness ==
    /\ FilterSent
    /\ "limit" \in DOMAIN op.conditions
    /\ op.conditions["limit"] = MaxLimit
    /\ sent[1].qs[1]["limit"] = MaxLimit

QueryFields == {"limit", "id_lt", "id_lte", "id_gt", "id_gte", "with_activity_data"}

\* C3 as stated: the query holds only limit, id_lt, id_lte, id_gt, id_gte and
\* with_activity_data: no lookup-axis field and not kind.
C3_AsStated == FilterSent => DOMAIN sent[1].qs[1] \subseteq QueryFields

\* C3 amended: the query holds limit and every condition field other than the three
\* lookup-axis fields, with the caller's values: none of user_id, activity_id,
\* reaction_id appears, but kind, when present in conditions, is sent in the query too.
C3_QueryFields ==
    FilterSent =>
        LET qs == sent[1].qs[1] IN
        /\ DOMAIN qs = ((DOMAIN op.conditions) \ LookupFields) \cup {"limit"}
        /\ DOMAIN qs \subseteq QueryFields \cup {"kind"}
        /\ \A k \in (DOMAIN qs) \ {"limit"} : qs[k] = op.conditions[k]

C3_Witness ==
    /\ FilterSent
    /\ Cardinality(AxesSet(op.conditions)) = 3
    /\ DOMAIN sent[1].qs[1] = {"limit", "kind", "id_gte", "with_activity_data"}

\* C4 as stated: with exactly one lookup axis present, the URL is
\* reaction/<axis>/<v>/, and reaction/<axis>/<v>/<kind>/ exactly when kind is present.
C4_AsStated ==
    (FilterSent /\ Cardinality(AxesSet(op.conditions)) = 1) =>
        LET c == op.conditions
            axis == CHOOSE k \in AxesSet(c) : TRUE
        IN  sent[1].url =
              IF "kind" \in DOMAIN c
              THEN "reaction/" \o axis \o "/" \o c[axis] \o "/" \o c["kind"] \o "/"
              ELSE "reaction/" \o axis \o "/" \o c[axis] \o "/"

\* C4 amended: in a filter call that passes validation, <axis> is the one lookup
\* field holding a non-empty string v, and the URL is reaction/<axis>/<v>/<kind>/
\* when kind is a non-empty string and reaction/<axis>/<v>/ otherwise.
C4_FilterURL ==
    FilterSent =>
        LET c == op.conditions IN
        /\ Cardinality(AxesNonEmpty(c)) = 1
        /\ LET axis == CHOOSE k \in AxesNonEmpty(c) : TRUE IN
           sent[1].url =
              IF "kind" \in DOMAIN c /\ c["kind"] # ""
              THEN "reaction/" \o axis \o "/" \o c[axis] \o "/" \o c["kind"] \o "/"
              ELSE "reaction/" \o axis \o "/" \o c[axis] \o "/"

C4_Witness ==
    /\ FilterSent
    /\ "kind" \in DOMAIN op.conditions
    /\ op.conditions["kind"] = "like"
    /\ sent[1].url = "reaction/activity_id/act1/like/"

-----------------------------------------------------------------------------
(* Claims about the request bodies of add, addChild and update *)

HasBody == op.name \in {"add", "addChild", "update"} /\ Len(sent) >= 1
Body == sent[1].body[1]

\* C5: for every id string s, add(kind, s, ...) and add(kind, {id: s}, ...) send the
\* same body, with activity_id = s; addChild(kind, s, ...) and
\* addChild(kind, {id: s}, ...) send the same body, with parent = s.
C5_IdOrObject ==
    /\ (op.name = "add" /\ Len(sent) >= 1) =>
          \A s \in ActivityIds :
              op.activity \in {RawId(s), Reference(s)} =>
                  /\ Body["activity_id"] = s
                  /\ Body = addBody(op.kind, RawId(s), op.data, op.options)
                  /\ Body = addBody(op.kind, Reference(s), op.data, op.options)
    /\ (op.name = "addChild" /\ Len(sent) >= 1) =>
          \A s \in ReactionIds :
              op.reaction \in {RawId(s), Reference(s)} =>
                  /\ Body["parent"] = s
                  /\ Body = addChildBody(op.kind, RawId(s), op.data, op.options)
                  /\ Body = addChildBody(op.kind, Reference(s), op.data, op.options)

C5_Witness ==
    /\ op.name = "add"
    /\ Len(sent) = 1
    /\ op.activity = Reference("act2")
    /\ Body["activity_id"] = "act2"

\* C6: the body of add, addChild and update has the key target_feeds_extra_data if
\* and only if the caller supplied targetFeedsExtraData, and then with exactly the
\* supplied value, the empty object included.
C6_ExtraData ==
    HasBody =>
        /\ ("target_feeds_extra_data" \in DOMAIN Body) <=> (op.options.targetFeedsExtraData # None)
        /\ op.options.targetFeedsExtraData # None =>
              Body["target_feeds_extra_data"] = op.options.targetFeedsExtraData[1]

C6_Witness ==
    /\ HasBody
    /\ op.name = "update"
    /\ op.options.targetFeedsExtraData = Some(<<>>)
    /\ "target_feeds_extra_data" \in DOMAIN Body
    /\ Body["target_feeds_extra_data"] = <<>>

\* C7: target_feeds in the body has the length of the targetFeeds list given, and
\* its i-th element is the i-th given string, or the id of the i-th given feed handle.
C7_TargetFeeds ==
    (HasBody /\ op.options.targetFeeds # None) =>
        LET given == op.options.targetFeeds[1]
            out == Body["target_feeds"]
        IN  /\ Len(out) = Len(given)
            /\ \A i \in 1..Len(given) :
                  /\ given[i].t = "string" => out[i] = given[i].v
                  /\ given[i].t = "feed" => out[i] = given[i].id

C7_Witness ==
    /\ HasBody
    /\ op.options.targetFeeds = Some(<<FeedHandle("user:carl"), RawId("timeline:bob")>>)
    /\ Body["target_feeds"] = <<"user:carl", "timeline:bob">>

\* C10: every update body has a target_feeds array; with targetFeeds omitted it is
\* [], and the whole body is the one update(id, data, {targetFeeds: []}) sends.
C10_UpdateAlwaysSendsFeeds ==
    (op.name = "update" /\ Len(sent) >= 1) =>
        /\ "target_feeds" \in DOMAIN Body
        /\ op.options.targetFeeds = None =>
              /\ Body["target_feeds"] = <<>>
              /\ Body = updateBody(op.data, [op.options EXCEPT !.targetFeeds = Some(<<>>)])

C10_Witness ==
    /\ op.name = "update"
    /\ Len(sent) = 1
    /\ op.options.targetFeeds = None
    /\ Body["target_feeds"] = <<>>

-----------------------------------------------------------------------------
(* Claims about the transport calls and their results *)

\* C8: an operation issues at most one transport call; one that has failed has
\* issued exactly one (no retry); a filter that threw has issued none.
C8_AtMostOneCall ==
    /\ Len(sent) <= 1
    /\ pc = "waiting" => Len(sent) = 1
    /\ (pc = "done" /\ result.state = "rejected") => Len(sent) = 1
    /\ (pc = "done" /\ result.state = "thrown") => sent = <<>>

C8_Witness ==
    /\ pc = "done"
    /\ result.state = "rejected"
    /\ Len(sent) = 1

\* C9: a get(id) that follows a successful delete(id), with no create of that id in
\* between, is rejected; whenever the service answered it, with status 404.
C9_GetAfterDelete ==
    (pc = "done" /\ op.name = "get" /\ op.id \in deletedIds) =>
        /\ result.state = "rejected"
        /\ result.status \in {404, 0}

C9_Witness ==
    /\ pc = "done"
    /\ op.name = "get"
    /\ op.id \in deletedIds
    /\ result = Rejected(404)

-----------------------------------------------------------------------------
(* Claims about the create requests *)

CreateSent == Len(sent) >= 1 /\ sent[1].method = "POST"
References(body) == {"activity_id", "parent"} \cap DOMAIN body

\* C11: every create body references exactly one of activity_id and parent: the body
\* of add has activity_id (the activity's id) and no parent, the body of addChild has
\* parent (the parent reaction's id) and no activity_id.
C11_ActivityXorParent ==
    /\ CreateSent => op.name \in {"add", "addChild"} /\ Cardinality(References(Body)) = 1
    /\ (op.name = "add" /\ Len(sent) >= 1) =>
          /\ References(Body) = {"activity_id"}
          /\ Body["activity_id"] \in ActivityIds
    /\ (op.name = "addChild" /\ Len(sent) >= 1) =>
          /\ References(Body) = {"parent"}
          /\ Body["parent"] \in ReactionIds

C11_Witness ==
    /\ op.name = "addChild"
    /\ CreateSent
    /\ op.reaction = Reference("r2")
    /\ References(Body) = {"parent"}
    /\ Body["parent"] = "r2"

====
